---- MODULE Spec2Model ----
(***************************************************************************)
(* A model of the ratcam illuminator synthesizer: the net classifier, the  *)
(* layout generator, the ring router and one run of place() and route()    *)
(* on a board, as written in src/synthesize.py and src/illuminator.py.     *)
(*                                                                         *)
(* Angles are integers in units of 1/FullTurn of a turn, so that every     *)
(* angle the program computes for the boards modelled here is exact.       *)
(* Lengths are integers in the board's internal unit (pcb.FromMM).         *)
(* Component names are sequences of characters, so that a prefix test is   *)
(* a test on the characters, as str.startswith is.                         *)
(***************************************************************************)
EXTENDS Integers, Sequences, FiniteSets

(***************************************************************************)
(* Bounds of the model.                                                    *)
(***************************************************************************)
\* Longest terminal list handed to the classifier on its own.
MaxTerms == 3
\* Largest index of the component names handed to the classifier on its own.
MaxNameIdx == 1
\* Largest n_lines and n_leds_per_line handed to the layout generator.
MaxLines == 3
MaxLedsPerLine == 2
\* Most terminals of a net handed to the ring router on its own.
MaxRingTerms == 2
\* The board of the run of place() and route(): its number of lines and of
\* LEDs per line (the options the source sets to 3 and 3 at lines 21 and 23).
N_LINES == 1
N_LEDS_PER_LINE == 1
\* The net codes of the board are 1..MaxNet.
MaxNet == 3
\* The pads of the pin J0 and of the transistor Q0.
PinPads == 2
FetPads == 2
\* The runs of the script (place() and route() on a new Illuminator) on the board.
MaxRuns == 2
\* Largest number of steps handed to radial_segment.
MaxSteps == 3

(***************************************************************************)
(* Names (synthesize.py 7-13) and net types (58-61).                       *)
(***************************************************************************)
LED_PREFIX == <<"L", "E", "D">>
RESISTOR_PREFIX == <<"R">>
MOSFET_NAME == <<"Q", "0">>
PIN_NAME == <<"J", "0">>

NetTypeLedStrip == "led strip"
NetTypePower == "power"
NetTypeGround == "ground"
NetTypeUnknown == "?"

\* None: as a result not yet there, as a net code and as a module.
None == "None"
NoNet == -1
NoModule == <<>>

\* The decimal digits of a natural number, as str(n) and '%d' % n give them.
DigitChars == <<"0", "1", "2", "3", "4", "5", "6", "7", "8", "9">>

RECURSIVE str(_)
str(n) ==
    IF n < 10 THEN <<DigitChars[n + 1]>>
    ELSE str(n \div 10) \o <<DigitChars[(n % 10) + 1]>>

\* s.startswith(prefix)
startswith(s, prefix) ==
    /\ Len(s) >= Len(prefix)
    /\ SubSeq(s, 1, Len(prefix)) = prefix

\* Terminal = namedtuple('Terminal', ['module', 'pad'])
Terminal(module, pad) == [module |-> module, pad |-> pad]

(***************************************************************************)
(* The net classifier, Illuminator.guess_net_type.                         *)
(***************************************************************************)
\* The value of the flag all_leds after the loop over the terminals: it is
\* cleared by a terminal that fails the LED test and passes the resistor test.
all_leds_after_loop(terminals) ==
    \A i \in 1..Len(terminals) :
        ~ ( /\ ~ startswith(terminals[i].module, LED_PREFIX)
            /\ startswith(terminals[i].module, RESISTOR_PREFIX) )

\* The value of the flag all_resistors after the loop: it is cleared by a
\* terminal that passes the LED test.
all_resistors_after_loop(terminals) ==
    \A i \in 1..Len(terminals) :
        ~ startswith(terminals[i].module, LED_PREFIX)

\* A mutant of led_only_net_type: the pad comparison is made for every net
\* that has more than one terminal.
led_only_net_type_count_slip(terminals) ==
    IF Len(terminals) = 1 THEN NetTypeGround
    ELSE IF terminals[1].pad = terminals[2].pad THEN NetTypeGround
    ELSE NetTypeLedStrip

\* Lines 141-150: the net of LED terminals only.
led_only_net_type(terminals) ==
    IF Len(terminals) # 2 THEN NetTypeGround
    ELSE IF terminals[1].pad = terminals[2].pad THEN NetTypeGround
    ELSE NetTypeLedStrip

\* A mutant of guess_net_type: the pad comparison is inverted.
guess_net_type_pad_slip(terminals) ==
    LET all_leds == all_leds_after_loop(terminals)
        all_resistors == all_resistors_after_loop(terminals)
    IN  IF all_leds # all_resistors
        THEN IF all_resistors THEN NetTypePower
             ELSE IF Len(terminals) # 2 THEN NetTypeGround
             ELSE IF terminals[1].pad # terminals[2].pad THEN NetTypeGround
             ELSE NetTypeLedStrip
        ELSE IF ~ all_leds /\ Len(terminals) = 2 THEN NetTypeLedStrip
        ELSE NetTypeUnknown

guess_net_type(terminals) ==
    LET all_leds == all_leds_after_loop(terminals)
        all_resistors == all_resistors_after_loop(terminals)
    IN  IF all_leds # all_resistors
        THEN IF all_resistors THEN NetTypePower
             ELSE led_only_net_type(terminals)
        ELSE IF ~ all_leds /\ Len(terminals) = 2 THEN NetTypeLedStrip
        ELSE NetTypeUnknown


(***************************************************************************)
(* Angles.  FullTurn units make 2*pi; it is a multiple of every element    *)
(* count the model reaches, of 3600 (tenths of a degree) and of 80.        *)
(***************************************************************************)
FullTurn == 16 * 9 * 25 * 7 * 11 * 13
HalfTurn == FullTurn \div 2
QuarterTurn == FullTurn \div 4

\* def ortho(a): return a - math.pi / 2.
ortho(a) == a - QuarterTurn

\* A point about the center, as the pair (angle in [0, 2*pi), distance) that
\* fixes its cartesian coordinates c.x + r*cos(angle), c.y + r*sin(angle):
\* angles that differ by whole turns give the same point.
to_cartesian(angle, r) == [a |-> angle % FullTurn, r |-> r]

\* to_polar gives the angle in [0, 2*pi) (acos, mirrored when the point is
\* below the center) and the distance.
to_polar(pos) == <<pos.a, pos.r>>

(***************************************************************************)
(* The layout generator of src/illuminator.py.                             *)
(***************************************************************************)
\* The default radius of the generator.
GenRadius == 30

get_resistor_name(line_idx) == <<"R">> \o str(line_idx)

\* A mutant of get_led_name: the line index is not scaled by the line length.
get_led_name_unscaled(line_idx, led_idx, leds_per_line) ==
    <<"L", "E", "D">> \o str(line_idx + led_idx)

get_led_name(line_idx, led_idx, leds_per_line) ==
    <<"L", "E", "D">> \o str(line_idx * leds_per_line + led_idx)

\* Place(x, y, rot): x and y are kept as the point they are the coordinates of.
get_one_place(angle, orientation, rot_of_center) ==
    [pos |-> to_cartesian(angle + rot_of_center, GenRadius),
     rot |-> ortho(angle) + orientation]

\* angle_step = 2. * math.pi / float(n_elm)
angle_step_of(lines, leds_per_line) ==
    FullTurn \div (lines * (1 + leds_per_line))

(***************************************************************************)
(* Options of src/synthesize.py (lines 15-52) and the board's unit.        *)
(***************************************************************************)
RADIUS_MM == 30
PWR_RING_DISP_MM == -4
GND_RING_DISP_MM == 4
LED_FILL_WIDTH_MM == 4
DEFAULT_TRACK_WIDTH_MM == 1
LayerBCu == 31
LayerFCu == 0
PWR_RING_FCU == TRUE
GND_RING_FCU == TRUE
MOSFET_ORIENTATION == 0
PIN_ORIENTATION == 0

\* pcb.FromMM: millimetres to the board's internal unit (nanometres).
FromMM(mm) == mm * 1000000

Degree == FullTurn \div 360
\* math.degrees(rot) * 10.
TenthOfDegree == FullTurn \div 3600
ROTATION_OFS_RAD == -(FullTurn \div 24)
LED_ORIENTATION_OFS_RAD == HalfTurn
RESISTOR_ORIENTATION_OFS_RAD == 0
ANG_DIST_BTW_MODS == FullTurn \div ((1 + N_LEDS_PER_LINE) * N_LINES)
RING_OVERHANG_ANGLE == ANG_DIST_BTW_MODS \div 3
RESIDUAL_ANGLE == ANG_DIST_BTW_MODS - 2 * RING_OVERHANG_ANGLE
\* 2 * asin((4 - 2 - 0.5) / 60) = 0.0500052 rad, in units of the model.
TARGET_REMAINING_ANGLE == 28679
FILL_OVERHANG_ANGLE == (RESIDUAL_ANGLE - TARGET_REMAINING_ANGLE) \div 2

\* delta scaled by shift / radius and added to pos: the same direction from
\* the center, the distance changed by shift.
shift_along_radius(pos, shift) == [a |-> pos.a, r |-> pos.r + shift]

shift_along_arc(pos, delta_angle) ==
    to_cartesian(to_polar(pos)[1] + delta_angle, to_polar(pos)[2])

(***************************************************************************)
(* Arc discretization: compute_radial_segment of src/synthesize.py and     *)
(* radial_segment of src/illuminator.py.  A generated point is kept with   *)
(* the value of the loop's variable angle it was made from, which may lie  *)
(* outside [0, 2*pi).                                                      *)
(***************************************************************************)
\* ANGULAR_RESOLUTION = math.pi / 40
ANGULAR_RESOLUTION == FullTurn \div 80

\* excess_angle=0.0001 (radians) of make_fill_arc, in units of the model.
FILL_EXCESS_ANGLE == 57

\* steps=None
NoSteps == -1

Abs(x) == IF x < 0 THEN -x ELSE x

\* A mutant of shorter_arc: the angles are left as to_polar gave them.
shorter_arc_as_given(start_angle, end_angle) == <<start_angle, end_angle>>

\* Lines 102-107 (illuminator.py 26-31): "Choose the arc < 180 degrees".
shorter_arc(start_angle, end_angle) ==
    IF Abs(end_angle - start_angle) > HalfTurn
    THEN IF start_angle < end_angle
         THEN <<start_angle, end_angle - FullTurn>>
         ELSE <<start_angle - FullTurn, end_angle>>
    ELSE <<start_angle, end_angle>>

\* Lines 108-111: int(math.ceil(abs(end_angle - start_angle) / angular_resolution))
\* when steps is None, and max(1, steps).
arc_steps(start_angle, end_angle, steps, angular_resolution) ==
    LET n == IF steps = NoSteps
             THEN (Abs(end_angle - start_angle) + angular_resolution - 1)
                      \div angular_resolution
             ELSE steps
    IN  IF n < 1 THEN 1 ELSE n

\* Lines 112-118: both ends are moved outwards by excess_angle.
with_excess(start_angle, end_angle, excess_angle) ==
    IF excess_angle = 0 THEN <<start_angle, end_angle>>
    ELSE IF start_angle <= end_angle
    THEN <<start_angle - excess_angle, end_angle + excess_angle>>
    ELSE <<start_angle + excess_angle, end_angle - excess_angle>>

\* The body of the loops (lines 120-124; illuminator.py 33-38) for step i.
arc_point(i, steps, start_angle, start_r, end_angle, end_r) ==
    LET angle_i == start_angle + (i * (end_angle - start_angle)) \div steps
        r_i == start_r + (i * (end_r - start_r)) \div steps
    IN  [angle |-> angle_i, pt |-> to_cartesian(angle_i, r_i)]

\* compute_radial_segment(c, start, end=end, ...) when by_angle is FALSE and
\* compute_radial_segment(c, start, angle=angle, ...) when it is TRUE: the
\* points it yields, in order.
compute_radial_segment(start, end, by_angle, angle_, steps, angular_resolution, excess_angle, skip_start) ==
    LET start_angle == to_polar(start)[1]
        start_r == to_polar(start)[2]
        end_r == IF by_angle THEN start_r ELSE to_polar(end)[2]
        end_angle == IF by_angle THEN start_angle + angle_ ELSE to_polar(end)[1]
        chosen == shorter_arc(start_angle, end_angle)
        n == arc_steps(chosen[1], chosen[2], steps, angular_resolution)
        ends == with_excess(chosen[1], chosen[2], excess_angle)
        all == [k \in 1..(n + 1) |->
                    arc_point(k - 1, n, ends[1], start_r, ends[2], end_r)]
    IN  IF skip_start THEN Tail(all) ELSE all

\* radial_segment of illuminator.py: range(steps), so the point of end is
\* not generated.
radial_segment(start, end, steps) ==
    LET chosen == shorter_arc(to_polar(start)[1], to_polar(end)[1])
    IN  [k \in 1..steps |->
            arc_point(k - 1, steps, chosen[1], to_polar(start)[2],
                      chosen[2], to_polar(end)[2])]

\* _make_track_arc_internal: the generator make_track_arc_from_endpts runs.
track_arc_points(start, end) ==
    compute_radial_segment(start, end, FALSE, 0, NoSteps, ANGULAR_RESOLUTION, 0, TRUE)

\* make_track_arc_from_angle
track_arc_points_from_angle(start, angle_) ==
    compute_radial_segment(start, start, TRUE, angle_, NoSteps, ANGULAR_RESOLUTION,
                           0, TRUE)

\* make_fill_arc: the two generators whose points make the outline.
fill_arc_points(start, end, width) ==
    LET lower_arc_start == shift_along_radius(start, -(width \div 2))
        upper_arc_start == shift_along_radius(end, width \div 2)
    IN  <<compute_radial_segment(lower_arc_start,
                                 shift_along_radius(end, -(width \div 2)),
                                 FALSE, 0, NoSteps, ANGULAR_RESOLUTION,
                                 FILL_EXCESS_ANGLE, FALSE),
          compute_radial_segment(upper_arc_start,
                                 shift_along_radius(start, width \div 2),
                                 FALSE, 0, NoSteps, ANGULAR_RESOLUTION,
                                 FILL_EXCESS_ANGLE, FALSE)>>

(***************************************************************************)
(* Copper.  An item of the board is a track segment, the chain of track    *)
(* segments laid along one arc (kept as one item, named by the end points  *)
(* handed to compute_radial_segment), a via or a fill area.                *)
(***************************************************************************)
NoPoint == [a |-> 0, r |-> 0]

\* make_track_segment
TrackSegment(start, end, net_code, layer) ==
    [kind |-> "track", net |-> net_code, layer |-> layer, p |-> start, q |-> end,
     w |-> FromMM(DEFAULT_TRACK_WIDTH_MM)]

\* make_track_arc_from_endpts, through _make_track_arc_internal
TrackArc(start, end, net_code, layer) ==
    [kind |-> "arc", net |-> net_code, layer |-> layer, p |-> start, q |-> end,
     w |-> FromMM(DEFAULT_TRACK_WIDTH_MM)]

\* make_fill_arc, through make_fill_area: the area between the arcs from
\* start to end at -width/2 and from end to start at +width/2.  Line 277
\* names the module pcbnew (the file imports it as pcb): the name is taken
\* to be bound, as it is in the scripting console the file is run from.
FillArc(start, end, width, net_code, layer) ==
    [kind |-> "area", net |-> net_code, layer |-> layer, p |-> start, q |-> end,
     w |-> width]

\* make_via: a through via between F.Cu and B.Cu.
Via(position, net_code) ==
    [kind |-> "via", net |-> net_code, layer |-> LayerFCu, p |-> position,
     q |-> position, w |-> FromMM(DEFAULT_TRACK_WIDTH_MM)]

(***************************************************************************)
(* The ring router, Illuminator._route_ring.  A terminal is handed over as *)
(* the position of its pad and the position of its module.                 *)
(***************************************************************************)
\* Lines 356-375 and 379: the point of the terminal that joins the ring.
ring_terminal_pt(t, displacement, ring_overhang) ==
    LET term_ring_pt_r == to_polar(t.pad)[2]
        mod_pos_angle == to_polar(t.mod)[1]
        new_end_pt == to_cartesian(mod_pos_angle + ring_overhang, term_ring_pt_r)
    IN  IF displacement # 0
        THEN shift_along_radius(IF ring_overhang # 0 THEN new_end_pt ELSE t.pad,
                                displacement)
        ELSE t.pad

\* Lines 356-378: the copper laid for one terminal.
ring_terminal_copper(t, net_code, displacement, ring_overhang, layer) ==
    LET term_ring_pt_r == to_polar(t.pad)[2]
        mod_pos_angle == to_polar(t.mod)[1]
        new_end_pt == to_cartesian(mod_pos_angle + ring_overhang, term_ring_pt_r)
        overhang_angle ==
            FILL_OVERHANG_ANGLE * (IF ring_overhang > 0 THEN 1 ELSE -1)
        fill_end_pt == shift_along_arc(new_end_pt, overhang_angle)
        from_pt == IF ring_overhang # 0 THEN new_end_pt ELSE t.pad
    IN  (IF displacement # 0 /\ ring_overhang # 0
         THEN {TrackArc(t.pad, new_end_pt, net_code, LayerFCu)}
                \cup (IF LED_FILL_WIDTH_MM # 0
                      THEN {FillArc(t.pad, fill_end_pt, FromMM(LED_FILL_WIDTH_MM),
                                    net_code, LayerFCu)}
                      ELSE {})
         ELSE {})
        \cup (IF displacement # 0
              THEN {TrackSegment(from_pt, shift_along_radius(from_pt, displacement),
                                 net_code, LayerFCu)}
              ELSE {})
        \cup (IF layer # LayerFCu
              THEN {Via(ring_terminal_pt(t, displacement, ring_overhang), net_code)}
              ELSE {})

\* (angle, r) tuples in the order list.sort() puts them.
PolarLess(u, v) == u[1] < v[1] \/ (u[1] = v[1] /\ u[2] < v[2])

RECURSIVE InsertSorted(_, _)
InsertSorted(s, x) ==
    IF s = <<>> THEN <<x>>
    ELSE IF PolarLess(x, Head(s)) THEN <<x>> \o s
    ELSE <<Head(s)>> \o InsertSorted(Tail(s), x)

RECURSIVE sort(_)
sort(s) == IF s = <<>> THEN <<>> ELSE InsertSorted(sort(Tail(s)), Head(s))

\* Lines 382-387.
polar_term_pos_sorted(terminal_pos, displacement) ==
    sort([i \in 1..Len(terminal_pos) |-> to_polar(terminal_pos[i])]
            \o << <<0, FromMM(RADIUS_MM) + displacement>>,
                  <<HalfTurn, FromMM(RADIUS_MM) + displacement>> >>)

\* A mutant of ring_first_last_pos: the loop starts from the first point.
ring_first_last_pos_head(polar_term_pos) == polar_term_pos[1]

\* Line 391: last_pos = polar_term_pos[-1]
ring_first_last_pos(polar_term_pos) == polar_term_pos[Len(polar_term_pos)]

\* Lines 391-397: the (start, end) of each arc laid around the ring, in order.
ring_connections(terminal_pos, displacement) ==
    LET polar == polar_term_pos_sorted(terminal_pos, displacement)
        last_pos(i) == IF i = 1 THEN ring_first_last_pos(polar) ELSE polar[i - 1]
    IN  [i \in 1..Len(polar) |->
            <<to_cartesian(last_pos(i)[1], last_pos(i)[2]),
              to_cartesian(polar[i][1], polar[i][2])>>]

\* The list terminal_pos of line 379.
ring_terminal_pos(ts, displacement, ring_overhang) ==
    [i \in 1..Len(ts) |-> ring_terminal_pt(ts[i], displacement, ring_overhang)]

\* All the copper _route_ring lays for a net.
route_ring_copper(net_code, ts, displacement, ring_overhang, layer) ==
    LET conns == ring_connections(ring_terminal_pos(ts, displacement, ring_overhang),
                                  displacement)
    IN  UNION {ring_terminal_copper(ts[i], net_code, displacement, ring_overhang, layer)
                    : i \in 1..Len(ts)}
        \cup {TrackArc(conns[i][1], conns[i][2], net_code, layer) : i \in 1..Len(conns)}

\* The arguments route() hands to _route_ring for each bus (lines 421-433).
BusDisplacement(bus) ==
    IF bus = NetTypePower THEN FromMM(PWR_RING_DISP_MM) ELSE FromMM(GND_RING_DISP_MM)
BusOverhang(bus) ==
    IF bus = NetTypePower THEN RING_OVERHANG_ANGLE ELSE -RING_OVERHANG_ANGLE
BusLayer(bus) ==
    IF bus = NetTypePower
    THEN (IF PWR_RING_FCU THEN LayerFCu ELSE LayerBCu)
    ELSE (IF GND_RING_FCU THEN LayerFCu ELSE LayerBCu)

(***************************************************************************)
(* The board (pcb.GetBoard()) as the program sees it.  A module has a      *)
(* position, an orientation in tenths of a degree and a side; a pad has a  *)
(* name and a net code and sits on the circle of its module, a degree or   *)
(* more from it, on the other side of it when the module is flipped.       *)
(***************************************************************************)
NetCodes == 1..MaxNet

\* The names place() gives to the components it places, in its order.
RECURSIVE line_names(_, _)
line_names(line, led) ==
    IF line >= N_LINES THEN <<>>
    ELSE IF led < 0
         THEN <<RESISTOR_PREFIX \o str(line)>> \o line_names(line, 0)
    ELSE IF led < N_LEDS_PER_LINE
         THEN <<LED_PREFIX \o str(line * N_LEDS_PER_LINE + led)>> \o line_names(line, led + 1)
    ELSE line_names(line + 1, -1)

PlacedNames == line_names(0, -1)

\* mod.Pads(): the pad names of a module, in order.
PadNames(m) ==
    IF m = PIN_NAME THEN [i \in 1..PinPads |-> DigitChars[i + 1]]
    ELSE IF m = MOSFET_NAME THEN [i \in 1..FetPads |-> DigitChars[i + 1]]
    ELSE <<"1", "2">>

PadIndex(m, pad) == CHOOSE i \in 1..Len(PadNames(m)) : PadNames(m)[i] = pad

\* The terminals of a sequence of modules: module by module, pad by pad.
RECURSIVE TerminalsOf(_)
TerminalsOf(ms) ==
    IF ms = <<>> THEN <<>>
    ELSE [i \in 1..Len(PadNames(Head(ms))) |-> Terminal(Head(ms), PadNames(Head(ms))[i])]
            \o TerminalsOf(Tail(ms))

Range(f) == {f[i] : i \in DOMAIN f}

\* pad.GetPosition()
PadPosition(places, t) ==
    LET ofs == (2 * PadIndex(t.module, t.pad) - 3) * Degree
    IN  to_cartesian(places[t.module].pos.a
                        + (IF places[t.module].flipped THEN -ofs ELSE ofs),
                     places[t.module].pos.r)

\* Copper left on the board by earlier work: a track and a fill area on each net.
StaleCopper ==
    {TrackSegment(to_cartesian(0, FromMM(1)), to_cartesian(0, FromMM(2)), n, LayerFCu)
        : n \in NetCodes}
    \cup {FillArc(to_cartesian(0, FromMM(1)), to_cartesian(0, FromMM(2)), FromMM(1),
                  n, LayerBCu) : n \in NetCodes}

CopperOn(b, net_code) == {x \in b : x.net = net_code}

(***************************************************************************)
(* Operations of Illuminator on the board.                                 *)
(***************************************************************************)
\* get_nets_at_placed_modules: the terminals of each net, in the order the
\* loops meet them.  The placed modules are iterated in the order they were
\* added (the iteration order of the set is the same in every run).
get_nets_at_placed_modules(placed, nets_of_pads) ==
    LET ts == TerminalsOf(placed)
        keys == {nets_of_pads[ts[i]] : i \in 1..Len(ts)}
        onnet(n) == LET on(t) == nets_of_pads[t] = n IN SelectSeq(ts, on)
    IN  [n \in keys |-> onnet(n)]

\* A mutant of clear_tracks_in_nets: the vias of the nets are left in place.
clear_tracks_in_nets_keeps_vias(b, net_codes) ==
    {x \in b : ~ (x.kind \in {"track", "arc", "area"} /\ x.net \in net_codes)}

\* A mutant of clear_tracks_in_nets: the areas of the nets are left in place.
clear_tracks_in_nets_keeps_areas(b, net_codes) ==
    {x \in b : ~ (x.kind \in {"track", "arc", "via"} /\ x.net \in net_codes)}

\* clear_tracks_in_nets: the tracks (board.GetTracks() lists the vias with
\* them) and then the areas of the nets are deleted.
clear_tracks_in_nets(b, net_codes) ==
    LET kept == {x \in b : ~ (x.kind \in {"track", "arc", "via"} /\ x.net \in net_codes)}
    IN  {x \in kept : ~ (x.kind = "area" /\ x.net \in net_codes)}

\* _get_one_place, and place_module's SetPosition and SetOrientation.
placed_at(angle_, orientation, side) ==
    [pos |-> to_cartesian(angle_ + ROTATION_OFS_RAD, FromMM(RADIUS_MM)),
     orient |-> -((ortho(angle_ + ROTATION_OFS_RAD) + orientation) \div TenthOfDegree),
     flipped |-> side]

\* The loop of place() (lines 206-220): the k-th component placed goes to
\* angle -(k-1) * angle_step, when the board has it.
place_loop(places) ==
    LET angle_step == FullTurn \div (N_LINES * (1 + N_LEDS_PER_LINE))
        index(m) == CHOOSE k \in 1..Len(PlacedNames) : PlacedNames[k] = m
    IN  [m \in DOMAIN places |->
            IF m \in Range(PlacedNames)
            THEN placed_at(-((index(m) - 1) * angle_step),
                           IF startswith(m, LED_PREFIX) THEN LED_ORIENTATION_OFS_RAD
                           ELSE RESISTOR_ORIENTATION_OFS_RAD,
                           places[m].flipped)
            ELSE places[m]]

\* board.FindModule(name)
FindModule(on_board, name) == IF name \in on_board THEN name ELSE NoModule

\* A mutant of aux_missing: the step is left only when both are missing.
aux_missing_both(pin_, fet_) == pin_ = NoModule /\ fet_ = NoModule

\* if self.pin is None or self.fet is None: return
aux_missing(pin_, fet_) == pin_ = NoModule \/ fet_ = NoModule

\* _place_pin_and_fet past its guard (lines 442-450): both are flipped to
\* the back if they are not there, the pin goes to the left of the center
\* and the transistor to the right.
place_pin_and_fet(places) ==
    [m \in DOMAIN places |->
        IF m = PIN_NAME
        THEN [pos |-> to_cartesian(HalfTurn, FromMM(RADIUS_MM)),
              orient |-> -(PIN_ORIENTATION \div TenthOfDegree),
              flipped |-> TRUE]
        ELSE IF m = MOSFET_NAME
        THEN [pos |-> to_cartesian(0, FromMM(RADIUS_MM)),
              orient |-> -(MOSFET_ORIENTATION \div TenthOfDegree),
              flipped |-> TRUE]
        ELSE places[m]]

\* _route_fill_arc: the arc of track and the filled arc between two terminals.
route_fill_arc_copper(net_code, places, start_terminal, end_terminal) ==
    LET start_pos == PadPosition(places, start_terminal)
        end_pos == PadPosition(places, end_terminal)
    IN  {TrackArc(start_pos, end_pos, net_code, LayerFCu),
         FillArc(start_pos, end_pos, FromMM(LED_FILL_WIDTH_MM), net_code, LayerFCu)}

\* _route_arc
route_arc_copper(net_code, places, start_terminal, end_terminal) ==
    {TrackArc(PadPosition(places, start_terminal), PadPosition(places, end_terminal),
              net_code, LayerFCu)}

\* The terminals of a net as _route_ring reads them from the board.
RingTerminals(places, ts) ==
    [i \in 1..Len(ts) |-> [pad |-> PadPosition(places, ts[i]),
                          mod |-> places[ts[i].module].pos]]

\* A mutant of bus_not_routed: the assertion is not made.
bus_not_routed_unchecked(bus_net) == TRUE

\* assert(self.power_net is None), assert(self.ground_net is None)
bus_not_routed(bus_net) == bus_net = NoNet

\* A mutant of skips_net: no net is skipped.
skips_net_never(type) == FALSE

\* if net_type == NetTypeUnknown: ... continue
skips_net(type) == type = NetTypeUnknown

\* make_track_horizontal_segment_to_radius: the point of the circle of that
\* radius level with start, on the side of the center start is on (the point
\* of start's own angle when start is on that circle, as the pads are).
horizontal_to_radius(start, radius) == [a |-> start.a, r |-> radius]

\* Lines 457-470: the pairs of a pin pad and a transistor pad on one net,
\* pin pad by pin pad; each clears its net and is joined by two segments
\* and an arc on the back.
RECURSIVE route_pairs(_, _, _, _)
route_pairs(b, pairs, places, nets_of_pads) ==
    IF pairs = <<>> THEN b
    ELSE LET pin_pad == Head(pairs)[1]
             fet_pad == Head(pairs)[2]
             net_code == nets_of_pads[fet_pad]
             fet_pos == PadPosition(places, fet_pad)
             pin_pos == PadPosition(places, pin_pad)
             fet_pt == horizontal_to_radius(fet_pos, FromMM(RADIUS_MM))
             pin_pt == horizontal_to_radius(pin_pos, FromMM(RADIUS_MM))
         IN  IF nets_of_pads[fet_pad] # nets_of_pads[pin_pad]
             THEN route_pairs(b, Tail(pairs), places, nets_of_pads)
             ELSE route_pairs(
                    clear_tracks_in_nets(b, {net_code})
                        \cup {TrackSegment(fet_pos, fet_pt, net_code, LayerBCu),
                              TrackSegment(pin_pos, pin_pt, net_code, LayerBCu),
                              TrackArc(fet_pt, pin_pt, net_code, LayerBCu)},
                    Tail(pairs), places, nets_of_pads)

\* for pin_pad in self.pin.Pads(): for fet_pad in self.fet.Pads(): ...
PadPairs ==
    LET pins == TerminalsOf(<<PIN_NAME>>)
        fets == TerminalsOf(<<MOSFET_NAME>>)
    IN  [k \in 1..(Len(pins) * Len(fets)) |->
            <<pins[((k - 1) \div Len(fets)) + 1], fets[((k - 1) % Len(fets)) + 1]>>]

\* A mutant of ground_known_pt: the anchor at angle pi.
ground_known_pt_at_pi == to_cartesian(HalfTurn, FromMM(RADIUS_MM + GND_RING_DISP_MM))

\* Lines 479-480.
ground_known_pt == to_cartesian(0, FromMM(RADIUS_MM + GND_RING_DISP_MM))

\* Lines 493-494.
power_known_pt == to_cartesian(HalfTurn, FromMM(RADIUS_MM + PWR_RING_DISP_MM))

\* Lines 473-499: a via at the known point of the bus and a segment from it
\* to each transistor pad on the ground net and each pin pad on the power net.
bus_vias(places, nets_of_pads, ground, power) ==
    LET fets == Range(TerminalsOf(<<MOSFET_NAME>>))
        pins == Range(TerminalsOf(<<PIN_NAME>>))
    IN  UNION {{Via(ground_known_pt, ground),
                TrackSegment(ground_known_pt, PadPosition(places, t), ground, LayerBCu)}
                    : t \in {u \in fets : nets_of_pads[u] = ground}}
        \cup UNION {{Via(power_known_pt, power),
                     TrackSegment(power_known_pt, PadPosition(places, t), power, LayerBCu)}
                    : t \in {u \in pins : nets_of_pads[u] = power}}

(***************************************************************************)
(* State.                                                                  *)
(***************************************************************************)
VARIABLES
    \* the classifier on its own: its argument and its result
    terminals, net_type,
    \* the layout generator: its options, the position it is suspended at
    \* (gen_pc, line_idx, led_idx), its running angle and what it has yielded
    n_lines, n_leds_per_line, led_orientation, center_rot,
    gen_pc, line_idx, led_idx, angle, emitted,
    \* the ring router on its own: the bus, the terminals of the net, the
    \* points and the arcs it has made
    ring_bus, ring_in, ring_points, ring_arcs, ring_pc,
    \* the board: the modules on it, the net code of each pad, the place of
    \* each module, the tracks, vias and areas
    modules, pad_net, mod_place, board,
    \* the Illuminator of the current run
    placed_modules, pin, fet, ground_net, power_net,
    \* where the run is: pc, the nets route() has iterated over, the run's number
    pc, visited, run,
    \* for each net, the copper it had when it was first routed
    routed_log,
    \* the net route() made copper for last, and the board as it was when the
    \* first item of that copper was made (after line 411)
    board_at_make,
    \* the arc generators on their own: the two points, the caller, the points
    \* each generator has yielded
    arc_start, arc_end, arc_kind, arc_runs, arc_pc

guessVars == <<terminals, net_type>>
layoutVars == <<n_lines, n_leds_per_line, led_orientation, center_rot,
                gen_pc, line_idx, led_idx, angle, emitted>>
ringVars == <<ring_bus, ring_in, ring_points, ring_arcs, ring_pc>>
hostVars == <<modules, pad_net>>
boardVars == <<modules, pad_net, mod_place, board, placed_modules, pin, fet,
               ground_net, power_net, pc, visited, run, routed_log, board_at_make>>
arcVars == <<arc_start, arc_end, arc_kind, arc_runs, arc_pc>>
vars == <<guessVars, layoutVars, ringVars, boardVars, arcVars>>

(***************************************************************************)
(* The classifier on its own: any terminal list of bounded length over     *)
(* LED, resistor, pin and transistor names.                                *)
(***************************************************************************)
GuessModules ==
    {LED_PREFIX \o str(i) : i \in 0..MaxNameIdx}
        \cup {RESISTOR_PREFIX \o str(i) : i \in 0..MaxNameIdx}
        \cup {MOSFET_NAME, PIN_NAME}

GuessPads == {"1", "2"}

GuessTerminals == {Terminal(m, p) : m \in GuessModules, p \in GuessPads}

InitGuess ==
    /\ terminals \in UNION {[1..n -> GuessTerminals] : n \in 0..MaxTerms}
    /\ net_type = None

IdleGuess ==
    /\ terminals = <<>>
    /\ net_type = None

GuessNetType ==
    /\ net_type = None
    /\ net_type' = guess_net_type(terminals)
    /\ UNCHANGED <<terminals, layoutVars, ringVars, boardVars, arcVars>>



(***************************************************************************)
(* The layout generator on its own: Illuminator.__call__ of illuminator.py *)
(* for any n_lines in 1..MaxLines and n_leds_per_line in 0..MaxLedsPerLine.*)
(* Each action resumes the generator and runs it to its next yield.        *)
(***************************************************************************)
InitLayout ==
    /\ n_lines \in 1..MaxLines
    /\ n_leds_per_line \in 0..MaxLedsPerLine
    /\ led_orientation \in {0, HalfTurn}
    /\ center_rot \in {0, -(FullTurn \div 24)}
    /\ gen_pc = "start"
    /\ line_idx = 0
    /\ led_idx = 0
    /\ angle = 0
    /\ emitted = <<>>

IdleLayout ==
    /\ n_lines = 1
    /\ n_leds_per_line = 0
    /\ led_orientation = 0
    /\ center_rot = 0
    /\ gen_pc = "idle"
    /\ line_idx = 0
    /\ led_idx = 0
    /\ angle = 0
    /\ emitted = <<>>

\* The running angle once the generator has resumed: the statement after
\* each yield is angle -= angle_step.
ResumedAngle ==
    IF gen_pc = "start" THEN angle
    ELSE angle - angle_step_of(n_lines, n_leds_per_line)

\* The inner loop has another LED to yield.
MoreLeds ==
    \/ gen_pc = "after_resistor" /\ 0 < n_leds_per_line
    \/ gen_pc = "after_led" /\ led_idx + 1 < n_leds_per_line

\* The line the outer loop turns to when the inner loop is exhausted.
NextLine == IF gen_pc = "start" THEN 0 ELSE line_idx + 1

\* ... yield (self.get_resistor_name(line_idx), self.get_one_place(angle))
YieldResistor ==
    /\ gen_pc \in {"start", "after_resistor", "after_led"}
    /\ gen_pc # "start" => ~ MoreLeds
    /\ NextLine < n_lines
    /\ line_idx' = NextLine
    /\ angle' = ResumedAngle
    /\ emitted' = Append(emitted,
            [name |-> get_resistor_name(NextLine),
             place |-> get_one_place(ResumedAngle, 0, center_rot)])
    /\ gen_pc' = "after_resistor"
    /\ UNCHANGED <<n_lines, n_leds_per_line, led_orientation, center_rot, led_idx,
                   guessVars, ringVars, boardVars, arcVars>>

\* ... yield (self.get_led_name(line_idx, led_idx), self.get_one_place(angle, ...))
YieldLed ==
    /\ gen_pc \in {"after_resistor", "after_led"}
    /\ MoreLeds
    /\ led_idx' = (IF gen_pc = "after_resistor" THEN 0 ELSE led_idx + 1)
    /\ angle' = ResumedAngle
    /\ emitted' = Append(emitted,
            [name |-> get_led_name(line_idx, led_idx', n_leds_per_line),
             place |-> get_one_place(ResumedAngle, led_orientation, center_rot)])
    /\ gen_pc' = "after_led"
    /\ UNCHANGED <<n_lines, n_leds_per_line, led_orientation, center_rot, line_idx,
                   guessVars, ringVars, boardVars, arcVars>>

\* The loops are exhausted: the generator returns.
StopIteration ==
    /\ gen_pc \in {"after_resistor", "after_led"}
    /\ ~ MoreLeds
    /\ ~ (NextLine < n_lines)
    /\ angle' = ResumedAngle
    /\ gen_pc' = "end"
    /\ UNCHANGED <<n_lines, n_leds_per_line, led_orientation, center_rot,
                   line_idx, led_idx, emitted, guessVars, ringVars, boardVars, arcVars>>

(***************************************************************************)
(* The ring router on its own: _route_ring for either bus and any net of   *)
(* at most MaxRingTerms terminals whose points fall on the angles below,   *)
(* the pads on the circle of the components or a millimetre inside it.     *)
(***************************************************************************)
RingTestAngles ==
    {0, 10 * Degree, 170 * Degree, HalfTurn, 200 * Degree, 350 * Degree}

RingTestTerminals(bus) ==
    {[pad |-> to_cartesian(a - BusOverhang(bus) + Degree, r),
      mod |-> to_cartesian(a - BusOverhang(bus), FromMM(RADIUS_MM))]
        : a \in RingTestAngles, r \in {FromMM(RADIUS_MM), FromMM(RADIUS_MM - 1)}}

InitRing ==
    /\ ring_bus \in {NetTypePower, NetTypeGround}
    /\ ring_in \in UNION {[1..n -> RingTestTerminals(ring_bus)] : n \in 0..MaxRingTerms}
    /\ ring_points = <<>>
    /\ ring_arcs = <<>>
    /\ ring_pc = "start"

IdleRing ==
    /\ ring_bus = NetTypePower
    /\ ring_in = <<>>
    /\ ring_points = <<>>
    /\ ring_arcs = <<>>
    /\ ring_pc = "idle"

RouteRing ==
    /\ ring_pc = "start"
    /\ ring_points' = ring_terminal_pos(ring_in, BusDisplacement(ring_bus),
                                        BusOverhang(ring_bus))
    /\ ring_arcs' = ring_connections(ring_points', BusDisplacement(ring_bus))
    /\ ring_pc' = "done"
    /\ UNCHANGED <<ring_bus, ring_in, guessVars, layoutVars, boardVars, arcVars>>

(***************************************************************************)
(* The arc generators on their own: any two points on the test angles and  *)
(* radii, handed to each caller of compute_radial_segment and to           *)
(* radial_segment.                                                         *)
(***************************************************************************)
ArcTestAngles ==
    {0, 10 * Degree, 170 * Degree, HalfTurn - 50, HalfTurn, 200 * Degree, 350 * Degree}

ArcTestPoints ==
    {to_cartesian(a, r) : a \in ArcTestAngles,
                          r \in {FromMM(RADIUS_MM), FromMM(RADIUS_MM + GND_RING_DISP_MM)}}

\* The angle argument of make_track_arc_from_angle.
ArcTestSweeps == {-(200 * Degree), -RING_OVERHANG_ANGLE, RING_OVERHANG_ANGLE, 200 * Degree}

InitArc ==
    /\ arc_start \in ArcTestPoints
    /\ arc_end \in ArcTestPoints
    /\ arc_kind = None
    /\ arc_runs = <<>>
    /\ arc_pc = "ready"

IdleArc ==
    /\ arc_start = NoPoint
    /\ arc_end = NoPoint
    /\ arc_kind = None
    /\ arc_runs = <<>>
    /\ arc_pc = "idle"

\* make_track_arc_from_endpts(start, end, ...)
MakeTrackArcFromEndpts ==
    /\ arc_pc = "ready"
    /\ arc_kind' = "track"
    /\ arc_runs' = <<track_arc_points(arc_start, arc_end)>>
    /\ arc_pc' = "done"
    /\ UNCHANGED <<arc_start, arc_end, guessVars, layoutVars, ringVars, boardVars>>

\* make_track_arc_from_angle(start, angle, ...)
MakeTrackArcFromAngle ==
    /\ arc_pc = "ready"
    /\ \E angle_ \in ArcTestSweeps :
            arc_runs' = <<track_arc_points_from_angle(arc_start, angle_)>>
    /\ arc_kind' = "track from angle"
    /\ arc_pc' = "done"
    /\ UNCHANGED <<arc_start, arc_end, guessVars, layoutVars, ringVars, boardVars>>

\* make_fill_arc(start, end, width, ...)
MakeFillArc ==
    /\ arc_pc = "ready"
    /\ arc_kind' = "fill"
    /\ arc_runs' = fill_arc_points(arc_start, arc_end, FromMM(LED_FILL_WIDTH_MM))
    /\ arc_pc' = "done"
    /\ UNCHANGED <<arc_start, arc_end, guessVars, layoutVars, ringVars, boardVars>>

\* list(radial_segment(c_x, c_y, start_x, start_y, end_x, end_y, steps))
RadialSegment ==
    /\ arc_pc = "ready"
    /\ \E steps \in 1..MaxSteps :
            arc_runs' = <<radial_segment(arc_start, arc_end, steps)>>
    /\ arc_kind' = "radial_segment"
    /\ arc_pc' = "done"
    /\ UNCHANGED <<arc_start, arc_end, guessVars, layoutVars, ringVars, boardVars>>

(***************************************************************************)
(* A board and the runs of the script on it.  The board has the components *)
(* place() names, and the pin, the transistor, both or neither; its pads   *)
(* are on any nets, the net codes numbered in the order of the pads (a net *)
(* code is an opaque name); every net has stale copper.                    *)
(***************************************************************************)
BoardTerminals(on_board) ==
    TerminalsOf(PlacedNames
                    \o (IF PIN_NAME \in on_board THEN <<PIN_NAME>> ELSE <<>>)
                    \o (IF MOSFET_NAME \in on_board THEN <<MOSFET_NAME>> ELSE <<>>))

NumberedInOrder(on_board, nets_of_pads) ==
    LET ts == BoardTerminals(on_board)
    IN  \A i \in 1..Len(ts) :
            \/ nets_of_pads[ts[i]] = 1
            \/ \E j \in 1..(i - 1) : nets_of_pads[ts[j]] >= nets_of_pads[ts[i]] - 1

InitBoard ==
    /\ modules \in {Range(PlacedNames) \cup aux : aux \in SUBSET {PIN_NAME, MOSFET_NAME}}
    /\ pad_net \in {f \in [Range(BoardTerminals(modules)) -> NetCodes] :
                        NumberedInOrder(modules, f)}
    /\ mod_place = [m \in modules |->
                        [pos |-> to_cartesian(0, FromMM(RADIUS_MM)), orient |-> 0,
                         flipped |-> FALSE]]
    /\ board = StaleCopper
    /\ placed_modules = <<>>
    /\ pin = NoModule
    /\ fet = NoModule
    /\ ground_net = NoNet
    /\ power_net = NoNet
    /\ pc = "start"
    /\ visited = {}
    /\ run = 1
    /\ routed_log = [n \in NetCodes |-> [routed |-> FALSE, copper |-> {}]]
    /\ board_at_make = [net |-> NoNet, board |-> {}]

IdleBoard ==
    /\ modules = {}
    /\ pad_net = <<>>
    /\ mod_place = <<>>
    /\ board = {}
    /\ placed_modules = <<>>
    /\ pin = NoModule
    /\ fet = NoModule
    /\ ground_net = NoNet
    /\ power_net = NoNet
    /\ pc = "idle"
    /\ visited = {}
    /\ run = 0
    /\ routed_log = <<>>
    /\ board_at_make = [net |-> NoNet, board |-> {}]

\* The dictionary route() iterates over.
Nets == get_nets_at_placed_modules(placed_modules, pad_net)

\* a.place(): the loop over the lines, then _place_pin_and_fet.
Place ==
    /\ pc = "start"
    /\ placed_modules' = PlacedNames
    /\ pin' = FindModule(modules, PIN_NAME)
    /\ fet' = FindModule(modules, MOSFET_NAME)
    /\ IF aux_missing(pin', fet')
       THEN /\ mod_place' = place_loop(mod_place)
            /\ pc' = "route"
       ELSE IF pin' = NoModule \/ fet' = NoModule
       THEN \* self.pin.IsFlipped() or self.fet.IsFlipped() on None
            /\ mod_place' = place_loop(mod_place)
            /\ pc' = "crashed"
       ELSE /\ mod_place' = place_pin_and_fet(place_loop(mod_place))
            /\ pc' = "route"
    /\ UNCHANGED <<hostVars, board, ground_net, power_net, visited, run, routed_log,
                   board_at_make,
                   guessVars, layoutVars, ringVars, arcVars>>

\* The copper on net n once the net is routed, for the log.
Logged(b, n) ==
    [routed_log EXCEPT ![n] = IF @.routed THEN @
                              ELSE [routed |-> TRUE, copper |-> CopperOn(b, n)]]

\* One turn of the loop of a.route(), for the next net of the dictionary
\* (the dictionary gives its nets in any order).
RouteNet(net_code) ==
    /\ pc = "route"
    /\ net_code \in (DOMAIN Nets) \ visited
    /\ visited' = visited \cup {net_code}
    /\ LET type == guess_net_type(Nets[net_code])
           cleared == clear_tracks_in_nets(board, {net_code})
           ring(bus) == route_ring_copper(net_code,
                                          RingTerminals(mod_place, Nets[net_code]),
                                          BusDisplacement(bus), BusOverhang(bus),
                                          BusLayer(bus))
       IN  IF skips_net(type)
           THEN UNCHANGED <<board, power_net, ground_net, pc, routed_log, board_at_make>>
           ELSE IF type = NetTypeLedStrip
           THEN IF Len(Nets[net_code]) = 2
                THEN /\ board' = cleared \cup
                            (IF LED_FILL_WIDTH_MM > 0
                             THEN route_fill_arc_copper(net_code, mod_place,
                                        Nets[net_code][1], Nets[net_code][2])
                             ELSE route_arc_copper(net_code, mod_place,
                                        Nets[net_code][1], Nets[net_code][2]))
                     /\ routed_log' = Logged(board', net_code)
                     /\ board_at_make' = [net |-> net_code, board |-> cleared]
                     /\ UNCHANGED <<power_net, ground_net, pc>>
                ELSE \* assert(len(terminals) == 2)
                     /\ board' = cleared
                     /\ pc' = "aborted"
                     /\ UNCHANGED <<power_net, ground_net, routed_log, board_at_make>>
           ELSE IF type = NetTypePower
           THEN IF bus_not_routed(power_net)
                THEN /\ power_net' = net_code
                     /\ board' = cleared \cup ring(NetTypePower)
                     /\ routed_log' = Logged(board', net_code)
                     /\ board_at_make' = [net |-> net_code, board |-> cleared]
                     /\ UNCHANGED <<ground_net, pc>>
                ELSE \* assert(self.power_net is None)
                     /\ board' = cleared
                     /\ pc' = "aborted"
                     /\ UNCHANGED <<power_net, ground_net, routed_log, board_at_make>>
           ELSE IF type = NetTypeGround
           THEN IF bus_not_routed(ground_net)
                THEN /\ ground_net' = net_code
                     /\ board' = cleared \cup ring(NetTypeGround)
                     /\ routed_log' = Logged(board', net_code)
                     /\ board_at_make' = [net |-> net_code, board |-> cleared]
                     /\ UNCHANGED <<power_net, pc>>
                ELSE \* assert(self.ground_net is None)
                     /\ board' = cleared
                     /\ pc' = "aborted"
                     /\ UNCHANGED <<power_net, ground_net, routed_log, board_at_make>>
           ELSE \* no branch of the if/elif chain takes the net
                /\ board' = cleared
                /\ UNCHANGED <<power_net, ground_net, pc, routed_log, board_at_make>>
    /\ UNCHANGED <<hostVars, mod_place, placed_modules, pin, fet, run,
                   guessVars, layoutVars, ringVars, arcVars>>

\* The end of a.route(): _route_pin_and_fet, once the loop is exhausted.
RoutePinAndFet ==
    /\ pc = "route"
    /\ visited = DOMAIN Nets
    /\ IF aux_missing(pin, fet)
       THEN /\ board' = board
            /\ pc' = "done"
       ELSE IF pin = NoModule \/ fet = NoModule
       THEN \* self.pin.Pads() or self.fet.Pads() on None
            /\ board' = board
            /\ pc' = "crashed"
       ELSE /\ board' = route_pairs(board, PadPairs, mod_place, pad_net)
                            \cup bus_vias(mod_place, pad_net, ground_net, power_net)
            /\ pc' = "done"
    /\ UNCHANGED <<hostVars, mod_place, placed_modules, pin, fet, ground_net,
                   power_net, visited, run, routed_log, board_at_make,
                   guessVars, layoutVars, ringVars,
                   arcVars>>

\* The script is run again on the board as it is: a = Illuminator().
NewRun ==
    /\ pc \in {"done", "aborted", "crashed"}
    /\ run < MaxRuns
    /\ run' = run + 1
    /\ placed_modules' = <<>>
    /\ pin' = NoModule
    /\ fet' = NoModule
    /\ ground_net' = NoNet
    /\ power_net' = NoNet
    /\ visited' = {}
    /\ pc' = "start"
    /\ UNCHANGED <<hostVars, mod_place, board, routed_log, board_at_make,
                   guessVars, layoutVars, ringVars,
                   arcVars>>

(***************************************************************************)
(* Specifications.                                                         *)
(***************************************************************************)
GuessStart == InitGuess /\ IdleLayout /\ IdleRing /\ IdleBoard /\ IdleArc
NextGuess == GuessNetType
SpecGuess == GuessStart /\ [][NextGuess]_vars

LayoutStart == IdleGuess /\ InitLayout /\ IdleRing /\ IdleBoard /\ IdleArc
NextLayout == YieldResistor \/ YieldLed \/ StopIteration
SpecLayout == LayoutStart /\ [][NextLayout]_vars

RingStart == IdleGuess /\ IdleLayout /\ InitRing /\ IdleBoard /\ IdleArc
NextRing == RouteRing
SpecRing == RingStart /\ [][NextRing]_vars

ArcStart == IdleGuess /\ IdleLayout /\ IdleRing /\ IdleBoard /\ InitArc
NextArc ==
    \/ MakeTrackArcFromEndpts
    \/ MakeTrackArcFromAngle
    \/ MakeFillArc
    \/ RadialSegment
SpecArc == ArcStart /\ [][NextArc]_vars

Init == IdleGuess /\ IdleLayout /\ IdleRing /\ InitBoard /\ IdleArc
Next ==
    \/ Place
    \/ \E net_code \in NetCodes : RouteNet(net_code)
    \/ RoutePinAndFet
    \/ NewRun
Spec == Init /\ [][Next]_vars

(***************************************************************************)
(* Claims about the classifier, checked under SpecGuess.                   *)
(***************************************************************************)
IsLedNamed(t) == startswith(t.module, LED_PREFIX)
IsResistorNamed(t) == startswith(t.module, RESISTOR_PREFIX)
Classified == net_type # None
NTerms == Len(terminals)

\* The cases of the classifier's table that the code and the table agree on.
TableCommonCases ==
    /\ (NTerms = 2 /\ IsResistorNamed(terminals[1]) /\ IsResistorNamed(terminals[2]))
            => net_type = NetTypePower
    /\ (NTerms = 1 /\ IsLedNamed(terminals[1]))
            => net_type = NetTypeGround
    /\ (NTerms = 2 /\ \E i, j \in 1..2 :
                        i # j /\ IsLedNamed(terminals[i]) /\ IsResistorNamed(terminals[j]))
            => net_type = NetTypeLedStrip
    /\ (NTerms = 3 /\ \A i \in 1..3 : IsLedNamed(terminals[i]))
            => net_type = NetTypeGround
    /\ (NTerms = 1 /\ ~ IsLedNamed(terminals[1]) /\ ~ IsResistorNamed(terminals[1]))
            => net_type = NetTypeUnknown

\* C1 as stated: the six cases of the table, among them that any two
\* terminals that reference the same pad name make a Ground net.
C1_AsStated ==
    Classified =>
        /\ TableCommonCases
        /\ (NTerms = 2 /\ terminals[1].pad = terminals[2].pad)
                => net_type = NetTypeGround

\* C1 as amended: the same six cases, the same-pad case being that of two LED
\* terminals that reference the same pad name, which make a Ground net.
C1_TableCases ==
    Classified =>
        /\ TableCommonCases
        /\ (NTerms = 2 /\ IsLedNamed(terminals[1]) /\ IsLedNamed(terminals[2])
                /\ terminals[1].pad = terminals[2].pad)
                => net_type = NetTypeGround

\* Two LED terminals on the same pad name have been classified.
C1_Witness ==
    /\ Classified
    /\ NTerms = 2
    /\ IsLedNamed(terminals[1]) /\ IsLedNamed(terminals[2])
    /\ terminals[1].module # terminals[2].module
    /\ terminals[1].pad = terminals[2].pad

\* C2: the result is Power exactly when every terminal's component is
\* resistor-named and not every terminal's component is LED-named.
C2_PowerIffAllResistors ==
    Classified =>
        ( net_type = NetTypePower
            <=> ( /\ \A i \in 1..NTerms : IsResistorNamed(terminals[i])
                  /\ ~ \A i \in 1..NTerms : IsLedNamed(terminals[i]) ) )

\* C6: a net classified as LedStrip has exactly two terminals.
C6_LedStripHasTwoTerminals ==
    (Classified /\ net_type = NetTypeLedStrip) => NTerms = 2

\* A net of two LED terminals has been classified LedStrip.
C6_Witness ==
    /\ Classified
    /\ net_type = NetTypeLedStrip
    /\ IsLedNamed(terminals[1])
    /\ IsLedNamed(terminals[2])

(***************************************************************************)
(* Claims about the layout generator, checked under SpecLayout.            *)
(***************************************************************************)
TotalPlacements == n_lines * (1 + n_leds_per_line)

\* C7: the generator emits n_lines * (1 + n_leds_per_line) placements, a
\* resistor and then n_leds_per_line LEDs for each line in line order, the
\* names pairwise distinct, the k-th placement (k from 0) at angle
\* -k * (2*pi / total).
C7_EvenLayout ==
    gen_pc # "idle" =>
        /\ Len(emitted) <= TotalPlacements
        /\ gen_pc = "end" => Len(emitted) = TotalPlacements
        /\ \A k \in 1..Len(emitted) :
            LET at == -((k - 1) * (FullTurn \div TotalPlacements))
                line == (k - 1) \div (1 + n_leds_per_line)
                within == (k - 1) % (1 + n_leds_per_line)
            IN  /\ emitted[k].place.pos = [a |-> (at + center_rot) % FullTurn,
                                           r |-> GenRadius]
                /\ emitted[k].place.rot =
                        at - QuarterTurn + (IF within = 0 THEN 0 ELSE led_orientation)
                /\ within = 0 => emitted[k].name = <<"R">> \o str(line)
                /\ within > 0 => SubSeq(emitted[k].name, 1, 3) = <<"L", "E", "D">>
        /\ \A j, k \in 1..Len(emitted) : j # k => emitted[j].name # emitted[k].name

\* The generator has run to its end for several lines of several LEDs.
C7_Witness ==
    /\ gen_pc = "end"
    /\ n_lines >= 2
    /\ n_leds_per_line >= 2
    /\ Len(emitted) = TotalPlacements

(***************************************************************************)
(* Claims about the ring router, checked under SpecRing.                   *)
(***************************************************************************)
\* The points of the ring: one for each terminal and the two anchors.
RingAllPoints ==
    ring_points \o << [a |-> 0, r |-> FromMM(RADIUS_MM) + BusDisplacement(ring_bus)],
                      [a |-> HalfTurn, r |-> FromMM(RADIUS_MM) + BusDisplacement(ring_bus)] >>

Times(x, s, side) == Cardinality({i \in 1..Len(s) : s[i][side] = x})
Occurrences(x, s) == Cardinality({i \in 1..Len(s) : s[i] = x})

\* C8: one point for each terminal and the two anchors; with k terminals
\* k + 2 arcs, made in the order of the angles, each from the point before in
\* that order and the first from the last; each point starts one arc and ends
\* one; terminals at 10 and 170 degrees give 0->10, 10->170, 170->180, 180->0.
C8_RingClosed ==
    ring_pc = "done" =>
        LET n == Len(ring_arcs)
        IN  /\ Len(ring_points) = Len(ring_in)
            /\ n = Len(ring_in) + 2
            /\ \A i \in 1..n : ring_arcs[i][2] = ring_arcs[(i % n) + 1][1]
            /\ \A i \in 1..(n - 1) : ring_arcs[i][2].a <= ring_arcs[i + 1][2].a
            /\ \A i \in 1..n :
                /\ Times(RingAllPoints[i], ring_arcs, 1)
                        = Occurrences(RingAllPoints[i], RingAllPoints)
                /\ Times(RingAllPoints[i], ring_arcs, 2)
                        = Occurrences(RingAllPoints[i], RingAllPoints)
            /\ {ring_points[i].a : i \in 1..Len(ring_points)} = {10 * Degree, 170 * Degree}
                /\ Len(ring_points) = 2
                => {<<ring_arcs[i][1].a, ring_arcs[i][2].a>> : i \in 1..n}
                    = { <<0, 10 * Degree>>, <<10 * Degree, 170 * Degree>>,
                        <<170 * Degree, HalfTurn>>, <<HalfTurn, 0>> }

\* The ring of a net with one terminal at 10 and one at 170 degrees is made.
C8_Witness ==
    /\ ring_pc = "done"
    /\ Len(ring_points) = 2
    /\ ring_points[1].a = 170 * Degree
    /\ ring_points[2].a = 10 * Degree
    /\ Len(ring_arcs) = 4

(***************************************************************************)
(* Claims about a run of place() and route() on a board, checked under     *)
(* Spec.                                                                   *)
(***************************************************************************)
\* The net the step has taken from the dictionary, if it is a turn of the loop.
Taken == visited' \ visited
TypeOf(n) == guess_net_type(Nets[n])
SameElsewhere(n) ==
    \A m \in NetCodes \ {n} : CopperOn(board', m) = CopperOn(board, m)

\* C3: at most one net is ring-routed as Power and one as Ground in a run: a
\* net becomes a bus only when the run has none of that kind, a bus stays the
\* bus to the end of the run, and a second net of the kind aborts the run with
\* no copper laid on it, the buses as they were and every other net's copper
\* untouched.
C3_OneBusOfEachKind ==
    [][ /\ \A n \in Taken :
            /\ ( \/ TypeOf(n) = NetTypePower /\ power_net # NoNet
                 \/ TypeOf(n) = NetTypeGround /\ ground_net # NoNet )
                => /\ pc' = "aborted"
                   /\ power_net' = power_net
                   /\ ground_net' = ground_net
                   /\ CopperOn(board', n) = {}
                   /\ SameElsewhere(n)
            /\ power_net' # power_net
                => power_net = NoNet /\ power_net' = n /\ TypeOf(n) = NetTypePower
            /\ ground_net' # ground_net
                => ground_net = NoNet /\ ground_net' = n /\ TypeOf(n) = NetTypeGround
            /\ (TypeOf(n) \in {NetTypePower, NetTypeGround} /\ pc' # "aborted")
                => n \in {power_net', ground_net'} /\ n \notin {power_net, ground_net}
        /\ pc = "route" /\ Taken = {}
            => power_net' = power_net /\ ground_net' = ground_net
      ]_vars

\* A run has aborted on a second Power net, the first one's ring in place.
C3_Witness ==
    /\ pc = "aborted"
    /\ power_net # NoNet
    /\ \E n \in visited \ {power_net} :
            /\ TypeOf(n) = NetTypePower
            /\ CopperOn(board, n) = {}
    /\ \E x \in CopperOn(board, power_net) : x.kind = "arc" /\ x.p.a = HalfTurn /\ x.q.a = 0

\* C4: a net that is routed again has, once routed, the copper it had when it
\* was first routed.
C4_RerouteSameCopper ==
    [][ \A n \in Taken :
            (TypeOf(n) # NetTypeUnknown /\ pc' # "aborted" /\ routed_log[n].routed)
                => CopperOn(board', n) = routed_log[n].copper
      ]_vars

\* In the second run a LedStrip, a Power and a Ground net have been routed
\* again, each with the copper of its first routing, on a board where the
\* end of the first run had added a via and a segment to both buses.
C4_Witness ==
    /\ run = 2
    /\ pc = "route"
    /\ pin # NoModule /\ fet # NoModule
    /\ \E t \in Range(TerminalsOf(<<MOSFET_NAME>>)) : pad_net[t] = ground_net
    /\ \E t \in Range(TerminalsOf(<<PIN_NAME>>)) : pad_net[t] = power_net
    /\ \A type \in {NetTypeLedStrip, NetTypePower, NetTypeGround} :
        \E n \in visited :
            /\ TypeOf(n) = type
            /\ routed_log[n].routed
            /\ routed_log[n].copper # {}
            /\ CopperOn(board, n) = routed_log[n].copper

\* C5: a net classified Unknown is passed over: the board, power_net and
\* ground_net are as before, the loop goes on with the nets that remain and
\* a run ends only when every net has been taken.
C5_UnknownSkipped ==
    [][ /\ \A n \in Taken :
            TypeOf(n) = NetTypeUnknown
                => /\ board' = board
                   /\ power_net' = power_net
                   /\ ground_net' = ground_net
                   /\ pc' = "route"
                   /\ visited' = visited \cup {n}
        /\ pc' = "done" => visited = DOMAIN Nets
      ]_vars

\* A run is over in which a net was Unknown and kept its stale copper, and
\* other nets were routed.
C5_Witness ==
    /\ pc = "done"
    /\ \E n \in visited :
        /\ TypeOf(n) = NetTypeUnknown
        /\ CopperOn(board, n) = CopperOn(StaleCopper, n)
    /\ power_net # NoNet
    /\ \E x \in CopperOn(board, power_net) : x.kind = "arc"

AuxPads(m) == Range(TerminalsOf(<<m>>))

\* C9 as stated: the via of a transistor pad on the Ground net is at angle pi
\* of the ground bus radius, the via of a pin pad on the Power net at angle 0
\* of the power bus radius.
C9_AsStated ==
    (pc = "done" /\ pin # NoModule /\ fet # NoModule) =>
        /\ \A t \in AuxPads(MOSFET_NAME) :
            pad_net[t] = ground_net =>
                LET at == [a |-> HalfTurn, r |-> FromMM(RADIUS_MM + GND_RING_DISP_MM)]
                IN  /\ Via(at, ground_net) \in board
                    /\ TrackSegment(at, PadPosition(mod_place, t), ground_net, LayerBCu)
                            \in board
        /\ \A t \in AuxPads(PIN_NAME) :
            pad_net[t] = power_net =>
                LET at == [a |-> 0, r |-> FromMM(RADIUS_MM + PWR_RING_DISP_MM)]
                IN  /\ Via(at, power_net) \in board
                    /\ TrackSegment(at, PadPosition(mod_place, t), power_net, LayerBCu)
                            \in board

\* C9 as amended: the via of a transistor pad on the Ground net is at angle 0
\* of the ground bus radius, the via of a pin pad on the Power net at angle pi
\* of the power bus radius, each joined to its pad by a segment on that net.
C9_ViasAtKnownPoints ==
    (pc = "done" /\ pin # NoModule /\ fet # NoModule) =>
        /\ \A t \in AuxPads(MOSFET_NAME) :
            pad_net[t] = ground_net =>
                LET at == [a |-> 0, r |-> FromMM(RADIUS_MM + GND_RING_DISP_MM)]
                IN  /\ Via(at, ground_net) \in board
                    /\ TrackSegment(at, PadPosition(mod_place, t), ground_net, LayerBCu)
                            \in board
        /\ \A t \in AuxPads(PIN_NAME) :
            pad_net[t] = power_net =>
                LET at == [a |-> HalfTurn, r |-> FromMM(RADIUS_MM + PWR_RING_DISP_MM)]
                IN  /\ Via(at, power_net) \in board
                    /\ TrackSegment(at, PadPosition(mod_place, t), power_net, LayerBCu)
                            \in board

\* A run is over on a board whose transistor has a pad on the Ground net and
\* whose pin has a pad on the Power net.
C9_Witness ==
    /\ pc = "done"
    /\ pin # NoModule /\ fet # NoModule
    /\ \E t \in AuxPads(MOSFET_NAME) : pad_net[t] = ground_net
    /\ \E t \in AuxPads(PIN_NAME) : pad_net[t] = power_net

AuxAbsent == PIN_NAME \notin modules \/ MOSFET_NAME \notin modules

\* C10: on a board without the pin or without the transistor, place() leaves
\* the one that is there where it is, as it is, the end of route() leaves the
\* board's copper as it is, and neither fails.
C10_AuxNoOp ==
    [][ AuxAbsent =>
            /\ pc = "start" /\ pc' # "start"
                => /\ pc' = "route"
                   /\ board' = board
                   /\ \A m \in modules \cap {PIN_NAME, MOSFET_NAME} :
                            mod_place'[m] = mod_place[m]
            /\ pc = "route" /\ pc' # "route" /\ Taken = {}
                => /\ pc' = "done"
                   /\ board' = board
      ]_vars

\* Two runs are over on a board with the pin and without the transistor.
C10_Witness ==
    /\ pc = "done"
    /\ run = 2
    /\ PIN_NAME \in modules
    /\ MOSFET_NAME \notin modules
    /\ ~ mod_place[PIN_NAME].flipped
    /\ power_net # NoNet

(***************************************************************************)
(* Claims about the arc generators, checked under SpecArc.                 *)
(***************************************************************************)
\* The angle swept from the first to the last point a generator has yielded.
Sweep(pts) == IF pts = <<>> THEN 0 ELSE Abs(pts[Len(pts)].angle - pts[1].angle)

\* The arcs made from a pair of points by the routing strategies and by
\* radial_segment.
ArcOfPointPair == arc_kind \in {"track", "fill", "radial_segment"}

\* C11, as stated: every arc discretized between two points, for the track
\* arcs and the fill arcs alike, sweeps at most pi from its first to its
\* last generated point.
C11_AsStated ==
    ArcOfPointPair => \A k \in 1..Len(arc_runs) : Sweep(arc_runs[k]) <= HalfTurn

\* C11, corrected: an arc of track between two points (and an arc of
\* radial_segment) sweeps at most pi from its first to its last generated
\* point, whatever the raw angular difference and across the 0/2*pi seam;
\* each of the two arcs of a fill arc sweeps at most pi plus twice the
\* excess angle (0.0001 rad) that make_fill_arc extends both ends by.
C11_SweepAtMostPiPlusExcess ==
    /\ arc_kind \in {"track", "radial_segment"}
            => \A k \in 1..Len(arc_runs) : Sweep(arc_runs[k]) <= HalfTurn
    /\ arc_kind = "fill"
            => \A k \in 1..Len(arc_runs) :
                    Sweep(arc_runs[k]) <= HalfTurn + 2 * FILL_EXCESS_ANGLE

\* C11, witness: a fill arc has been made between two points on either side
\* of the 0/2*pi seam whose raw angular difference is more than pi, and its
\* generators have yielded points that sweep an angle.
C11_Witness ==
    /\ arc_pc = "done"
    /\ arc_kind = "fill"
    /\ Abs(arc_end.a - arc_start.a) > HalfTurn
    /\ Len(arc_runs) = 2
    /\ \A k \in 1..2 : Len(arc_runs[k]) > 1 /\ Sweep(arc_runs[k]) > 0

(***************************************************************************)
(* Claims about the clearing of a net and about the end of route(),        *)
(* checked under Spec.                                                     *)
(***************************************************************************)
IsTrackOrArea(x) == x.kind \in {"track", "arc", "area"}

\* C12: for a net route() classifies as LedStrip, Power or Ground, the board
\* holds no earlier track or fill area of that net when the first new item
\* of the net is made, and every track and fill area of another net that
\* was on the board before the clear is on the board after it, at that
\* moment and when the net is routed.
C12_ClearedBeforeMake ==
    [][ \A n \in Taken :
            TypeOf(n) \in {NetTypeLedStrip, NetTypePower, NetTypeGround}
                => /\ \A x \in board : (IsTrackOrArea(x) /\ x.net # n) => x \in board'
                   /\ CopperOn(board', n) # {}
                        => /\ board_at_make'.net = n
                           /\ \A x \in board_at_make'.board :
                                    ~ (IsTrackOrArea(x) /\ x.net = n)
                           /\ \A x \in board :
                                    (IsTrackOrArea(x) /\ x.net # n)
                                        => x \in board_at_make'.board
                           /\ board_at_make'.board \subseteq board
                           /\ board_at_make'.board \subseteq board'
      ]_vars

\* C12, witness: in the second run a net has been routed on a board that
\* held the copper of its first routing; when its first new item was made
\* the board held tracks and areas of other nets and none of its own, and
\* the net has its copper again.
C12_Witness ==
    /\ run = 2
    /\ pc = "route"
    /\ board_at_make.net \in visited
    /\ routed_log[board_at_make.net].routed
    /\ routed_log[board_at_make.net].copper # {}
    /\ CopperOn(board_at_make.board, board_at_make.net) = {}
    /\ \E x \in board_at_make.board : x.kind = "arc" /\ x.net # board_at_make.net
    /\ \E x \in board_at_make.board : x.kind = "area" /\ x.net # board_at_make.net
    /\ CopperOn(board, board_at_make.net) = routed_log[board_at_make.net].copper

\* The step that ends route() on a board that has the pin and the transistor.
ConnectorStep == pc = "route" /\ pc' = "done" /\ Taken = {} /\ ~ AuxAbsent

\* The two segments and the arc _route_pin_and_fet makes for a pair of pads.
PairCopper(pair) ==
    LET pin_pos == PadPosition(mod_place, pair[1])
        fet_pos == PadPosition(mod_place, pair[2])
        pin_pt == horizontal_to_radius(pin_pos, FromMM(RADIUS_MM))
        fet_pt == horizontal_to_radius(fet_pos, FromMM(RADIUS_MM))
        net_code == pad_net[pair[2]]
    IN  {TrackSegment(fet_pos, fet_pt, net_code, LayerBCu),
         TrackSegment(pin_pos, pin_pt, net_code, LayerBCu),
         TrackArc(fet_pt, pin_pt, net_code, LayerBCu)}

\* C13: the end of route() deletes no copper made earlier in the run: the
\* copper of the Power and of the Ground ring is still on the board after
\* it, and so are the two segments and the arc made for every pair of a pin
\* pad and a transistor pad on one net.
C13_ConnectorKeepsCopper ==
    [][ ConnectorStep =>
            /\ \A n \in {power_net, ground_net} \ {NoNet} :
                    CopperOn(board, n) \subseteq board'
            /\ \A k \in 1..Len(PadPairs) :
                    pad_net[PadPairs[k][1]] = pad_net[PadPairs[k][2]]
                        => PairCopper(PadPairs[k]) \subseteq board'
      ]_vars

====
